---- MODULE Spec2Model ----
(***************************************************************************)
(* A model of src/sw.js, the BananaPass service worker: the install and    *)
(* activate handlers (pre-cache of URLS_TO_CACHE, deletion of the other    *)
(* caches, clients.claim) and the fetch handler (cache first, then         *)
(* network, with dynamic caching of good responses).                       *)
(*                                                                         *)
(* One worker exists per deployed generation g; it runs the code of sw.js  *)
(* with CACHE_NAME = CACHE_NAME(g).  The host (the browser) drives the     *)
(* worker lifecycle, dispatches the events and may stop an idle worker.    *)
(* Every promise resolution of the handlers is one step of the model.      *)
(***************************************************************************)
EXTENDS Integers, Sequences, FiniteSets, TLC

\* ------------------------------------------------------------- bounds
MaxGen == 2
MaxReq == 2
MaxPayload == 2

Gens == 1..MaxGen
Reqs == 1..MaxReq
Payloads == 1..MaxPayload

\* ---------------------------------------------------------- constants
\* sw.js:4, one name per deployed generation ('bananapass-cache-v1', ...)
CACHE_NAME(g) == "bananapass-cache-v" \o ToString(g)

\* The names of the caches of the origin: the modelled generations' and the
\* one of the deploy before them
CacheNames == {CACHE_NAME(g) : g \in 0..MaxGen}

\* sw.js:7-17
URLS_TO_CACHE ==
  << "/", "/index.html", "/logo.png", "/manifest.json",
     "/assets/images/hero-background.jpg",
     "/assets/images/blog-oaxaca.jpg",
     "/assets/images/placeholder-post.jpg" >>

\* The origin the worker is served from: relative URLs resolve against it.
Origin == "https://bananapass.app"

\* s begins with the characters of prefix (String.prototype.startsWith)
StartsWith(s, prefix) ==
  /\ Len(s) >= Len(prefix)
  /\ SubSeq(s, 1, Len(prefix)) = prefix

\* The request URL of a manifest entry, as cache.addAll builds it
ResolveURL(u) == IF StartsWith(u, "/") THEN Origin \o u ELSE u

ManifestKeys == {ResolveURL(URLS_TO_CACHE[i]) : i \in 1..Len(URLS_TO_CACHE)}

\* The requests the pages issue: method and URL
PageRequests ==
  { [method |-> "GET", url |-> Origin \o "/index.html"],
    [method |-> "GET", url |-> Origin \o "/api/rates"],
    [method |-> "POST", url |-> Origin \o "/api/submit"],
    [method |-> "GET", url |-> "chrome-extension://bananapass/inject.js"],
    [method |-> "GET", url |-> "httpx://bananapass.app/index.html"] }

\* The keys a cache can hold
Keys == ManifestKeys \cup {pr.url : pr \in PageRequests}

\* ---------------------------------------------------------- responses
\* No response: the value undefined
NoResponse == [status |-> 0, type |-> "none", payload |-> 0]

\* A network error: fetch() rejects
NetError == [status |-> 0, type |-> "error", payload |-> 0]

\* What the network can answer to a request
NetResponses ==
  {[status |-> 200, type |-> "basic", payload |-> p] : p \in Payloads}
  \cup {[status |-> 200, type |-> "cors", payload |-> 1],
        [status |-> 204, type |-> "basic", payload |-> 1],
        [status |-> 404, type |-> "basic", payload |-> 1],
        [status |-> 0, type |-> "opaque", payload |-> 1],
        NetError}

\* A stored record: the response and, as history, who wrote it
\* (writer 0 is the install handler, writer r > 0 the handling of request r)
MkRec(resp, writer) ==
  [status |-> resp.status, type |-> resp.type, payload |-> resp.payload,
   writer |-> writer]

ResponseOf(rec) ==
  [status |-> rec.status, type |-> rec.type, payload |-> rec.payload]

Clone_Consumed(resp) == [status |-> resp.status, type |-> resp.type, payload |-> 0]

\* sw.js:103, Response.clone(): an independent copy with the same status,
\* type and body
Clone(resp) == [status |-> resp.status, type |-> resp.type, payload |-> resp.payload]

Range(f) == {f[x] : x \in DOMAIN f}

VARIABLES
  wstate,          \* lifecycle state of each generation's worker
  ipc,             \* position of the install handler's promise chain
  ipromise,        \* the promise handed to the install event's waitUntil
  ihandle,         \* the cache object the install handler opened
  skipWaitingFlag, \* self.skipWaiting() was called
  populateFailed,  \* history: cache.addAll of this generation rejected
  activeAtFail,    \* history: the active generation when that happened
  apc,             \* position of the activate handler's promise chain
  apromise,        \* the promise handed to the activate event's waitUntil
  cacheNames,      \* the activate handler's caches.keys() result
  todel,           \* caches.delete calls issued and not yet finished
  claimed,         \* self.clients.claim() was called
  cacheOrder,      \* CacheStorage: the names of the caches, oldest first
  stores,          \* CacheStorage: per name, its instance and its records
  deletedBy,       \* history: which generation's activate deleted a cache
  controller,      \* the generation controlling the page (0: none)
  req              \* the fetch events and the state of their handling

vars == << wstate, ipc, ipromise, ihandle, skipWaitingFlag, populateFailed,
           activeAtFail, apc, apromise, cacheNames, todel, claimed,
           cacheOrder, stores, deletedBy, controller, req >>

installVars == << ipc, ipromise, ihandle, skipWaitingFlag, populateFailed, activeAtFail >>
activateVars == << apc, apromise, cacheNames, todel, claimed >>
storeVars == << cacheOrder, stores, deletedBy >>

\* ------------------------------------------------------ CacheStorage
Present(order, n) == \E i \in 1..Len(order) : order[i] = n

EmptyRecs == [k \in {} |-> NoResponse]

\* caches.open(name): the cache of that name, created when absent
OpenOrder(order, n) == IF Present(order, n) THEN order ELSE Append(order, n)

OpenStores(order, st, n) ==
  IF Present(order, n) THEN st
  ELSE [st EXCEPT ![n] = [epoch |-> st[n].epoch + 1, recs |-> EmptyRecs]]

\* caches.delete(name)
DeleteOrder(order, n) == SelectSeq(order, LAMBDA m : m # n)

DeleteStores(st, n) == [st EXCEPT ![n].recs = EmptyRecs]

\* cache.put on the cache object (name n, instance h): a cache object whose
\* cache was deleted meanwhile is detached, and the record is lost with it
Attached(order, st, n, h) == Present(order, n) /\ st[n].epoch = h

PutRec_KeepFirst(order, st, n, h, key, rec) ==
  IF Attached(order, st, n, h) /\ key \notin DOMAIN st[n].recs
  THEN [st EXCEPT ![n].recs = (key :> rec) @@ @]
  ELSE st

PutRec(order, st, n, h, key, rec) ==
  IF Attached(order, st, n, h)
  THEN [st EXCEPT ![n].recs = (key :> rec) @@ @]
  ELSE st

RECURSIVE MatchFrom(_, _, _, _)
\* caches.match(request): the caches are searched in creation order
MatchFrom(order, st, key, i) ==
  IF i > Len(order) THEN ""
  ELSE IF key \in DOMAIN st[order[i]].recs THEN order[i]
  ELSE MatchFrom(order, st, key, i + 1)

CachesMatch(order, st, key) == MatchFrom(order, st, key, 1)

\* ------------------------------------------------------------- host
ActiveGens == {g \in Gens : wstate[g] \in {"activating", "activated"}}

\* The worker has an event whose waitUntil / respondWith promise is pending
PendingEvents(w) ==
  \/ ipc[w] # "none"
  \/ apc[w] # "none"
  \/ \E r \in Reqs : req[r].worker = w /\ req[r].pc \in {"match", "fetch"}

\* The continuations a stopped worker never runs: the cache writes the fetch
\* handler started without handing them to the event
Unawaited(r) == req[r].pc \in {"open", "put"}

StopWorker_KeepsRunning(rq, w) == rq

StopWorker(rq, w) ==
  [r \in Reqs |->
     IF rq[r].worker = w /\ rq[r].pc \in {"open", "put"}
     THEN [rq[r] EXCEPT !.pc = "dropped"]
     ELSE rq[r]]

InitReq ==
  [pc |-> "idle", worker |-> 0, method |-> "GET", url |-> "",
   prior |-> {}, lookups |-> 0, servedFrom |-> "", hitWriter |-> -1,
   netCalls |-> 0, netResp |-> NoResponse,
   responded |-> FALSE, result |-> "none", resp |-> NoResponse,
   toCache |-> NoResponse, handle |-> 0]

\* ------------------------------------------------- the install event
\* The answers of the network to the requests of cache.addAll: every entry
\* answers 200, except entry `bad` (0: none), which answers b
\* (with the content p of the deployed assets)
ManifestResponses(bad, b, p) ==
  [i \in 1..Len(URLS_TO_CACHE) |->
     IF i = bad THEN b ELSE [status |-> 200, type |-> "basic", payload |-> p]]

\* The assets change from one deploy to the next
DeployPayload(g) == ((g - 1) % MaxPayload) + 1

BadAnswers == {NetError, [status |-> 404, type |-> "basic", payload |-> 1]}

\* cache.addAll rejects when a request fails or its response is not ok
\* (a status outside 200..299, or 206)
ResponseOk(resp) ==
  /\ resp.type # "error"
  /\ resp.status >= 200 /\ resp.status <= 299
  /\ resp.status # 206

\* sw.js:27: cache.addAll(URLS_TO_CACHE) stores every entry or none of them
AddAllOk(resps, stored) ==
  stored /\ \A i \in 1..Len(URLS_TO_CACHE) : ResponseOk(resps[i])

AddAllRecs(recs, resps) ==
  [k \in DOMAIN recs \cup ManifestKeys |->
     IF k \in ManifestKeys
     THEN MkRec(resps[CHOOSE i \in 1..Len(URLS_TO_CACHE) :
                        ResolveURL(URLS_TO_CACHE[i]) = k], 0)
     ELSE recs[k]]

AddAll(order, st, n, h, resps, stored) ==
  IF AddAllOk(resps, stored) /\ Attached(order, st, n, h)
  THEN [st EXCEPT ![n].recs = AddAllRecs(@, resps)]
  ELSE st

\* The cache an earlier deploy of the worker (generation 0, its worker long
\* gone) may have left behind: its name and its pre-cached records
LegacyName == CACHE_NAME(0)

LegacyRecs == AddAllRecs(EmptyRecs, ManifestResponses(0, NetError, DeployPayload(0)))

\* The state before the first modelled deploy: no worker is registered; the
\* origin's CacheStorage is empty, or holds the cache of the earlier deploy
InitWith(legacy) ==
  /\ wstate = [g \in Gens |-> "parsed"]
  /\ ipc = [g \in Gens |-> "none"]
  /\ ipromise = [g \in Gens |-> "pending"]
  /\ ihandle = [g \in Gens |-> 0]
  /\ skipWaitingFlag = [g \in Gens |-> FALSE]
  /\ populateFailed = [g \in Gens |-> FALSE]
  /\ activeAtFail = [g \in Gens |-> 0]
  /\ apc = [g \in Gens |-> "none"]
  /\ apromise = [g \in Gens |-> "pending"]
  /\ cacheNames = [g \in Gens |-> {}]
  /\ todel = [g \in Gens |-> {}]
  /\ claimed = [g \in Gens |-> FALSE]
  /\ cacheOrder = IF legacy THEN << LegacyName >> ELSE << >>
  /\ stores = [n \in CacheNames |->
       IF legacy /\ n = LegacyName
       THEN [epoch |-> 1, recs |-> LegacyRecs]
       ELSE [epoch |-> 0, recs |-> EmptyRecs]]
  /\ deletedBy = [n \in CacheNames |-> 0]
  /\ controller = 0
  /\ req = [r \in Reqs |-> InitReq]

\* The first deploy on a fresh origin
Init == InitWith(FALSE)

\* The first modelled deploy on an origin that holds an earlier deploy's cache
InitLegacy == InitWith(TRUE)

\* sw.js:34-36: the catch handler logs the error and returns nothing, so the
\* promise handed to waitUntil is fulfilled
InstallCatch(reason) == "fulfilled"

\* The host, once the promise given to the install event's waitUntil settled
AfterInstall(promise) == IF promise = "rejected" THEN "redundant" ELSE "installed"

\* The host registers the next generation's script and fires its install
\* event; the handler calls caches.open(CACHE_NAME) (sw.js:20-24)
Register(g) ==
  /\ wstate[g] = "parsed"
  /\ \A h \in Gens : h < g => wstate[h] \notin {"parsed", "installing"}
  /\ wstate' = [wstate EXCEPT ![g] = "installing"]
  /\ ipc' = [ipc EXCEPT ![g] = "open"]
  /\ UNCHANGED << ipromise, ihandle, skipWaitingFlag, populateFailed, activeAtFail,
                  activateVars, storeVars, controller, req >>

\* sw.js:24-27: caches.open resolves; the handler calls cache.addAll
InstallOpen(g) ==
  /\ ipc[g] = "open"
  /\ cacheOrder' = OpenOrder(cacheOrder, CACHE_NAME(g))
  /\ stores' = OpenStores(cacheOrder, stores, CACHE_NAME(g))
  /\ ihandle' = [ihandle EXCEPT ![g] = stores'[CACHE_NAME(g)].epoch]
  /\ ipc' = [ipc EXCEPT ![g] = "addAll"]
  /\ UNCHANGED << wstate, ipromise, skipWaitingFlag, populateFailed, activeAtFail,
                  activateVars, deletedBy, controller, req >>

AfterAddAll_Always(ok) == "skipWaiting"

\* sw.js:28-36: the .then callback (self.skipWaiting) runs when cache.addAll
\* fulfilled; when it rejected the .then is skipped and the catch handler ends
\* the chain
AfterAddAll(ok) == IF ok THEN "skipWaiting" ELSE "settled"

\* sw.js:27-36: cache.addAll settles; on success the handler goes on to
\* skipWaiting, on failure the catch handler runs
InstallAddAll(g, bad, b, stored) ==
  /\ ipc[g] = "addAll"
  /\ LET resps == ManifestResponses(bad, b, DeployPayload(g))
         ok == AddAllOk(resps, stored)
     IN /\ stores' = AddAll(cacheOrder, stores, CACHE_NAME(g), ihandle[g], resps, stored)
        /\ ipc' = [ipc EXCEPT ![g] = AfterAddAll(ok)]
        /\ ipromise' = [ipromise EXCEPT ![g] = IF ok THEN @ ELSE InstallCatch("rejected")]
        /\ populateFailed' = [populateFailed EXCEPT ![g] = ~ok]
        /\ activeAtFail' = [activeAtFail EXCEPT ![g] =
               IF ~ok /\ ActiveGens # {} THEN CHOOSE a \in ActiveGens : TRUE ELSE @]
  /\ UNCHANGED << wstate, ihandle, skipWaitingFlag, activateVars, cacheOrder,
                  deletedBy, controller, req >>

\* sw.js:29-33: self.skipWaiting()
InstallSkipWaiting(g) ==
  /\ ipc[g] = "skipWaiting"
  /\ skipWaitingFlag' = [skipWaitingFlag EXCEPT ![g] = TRUE]
  /\ ipromise' = [ipromise EXCEPT ![g] = "fulfilled"]
  /\ ipc' = [ipc EXCEPT ![g] = "settled"]
  /\ UNCHANGED << wstate, ihandle, populateFailed, activeAtFail, activateVars,
                  storeVars, controller, req >>

\* The host ends the install: the worker is installed (an older waiting
\* worker is discarded) or, had the promise been rejected, discarded
InstallSettled(g) ==
  /\ ipc[g] = "settled"
  /\ wstate' = [w \in Gens |->
       IF w = g THEN AfterInstall(ipromise[g])
       ELSE IF wstate[w] = "installed" /\ AfterInstall(ipromise[g]) = "installed"
            THEN "redundant"
       ELSE wstate[w]]
  /\ ipc' = [ipc EXCEPT ![g] = "none"]
  /\ UNCHANGED << ipromise, ihandle, skipWaitingFlag, populateFailed, activeAtFail,
                  activateVars, storeVars, controller, req >>

\* ------------------------------------------------ the activate event
ShouldDelete_Inverted(cacheName, current) == cacheName = current

\* sw.js:49
ShouldDelete(cacheName, current) == cacheName # current

\* The host activates the waiting worker: at once when there is no active
\* worker; else when the active worker has no pending event and either
\* controls no page or the waiting worker called skipWaiting.  The old
\* active worker is stopped and discarded, its pages pass to the new one,
\* and the activate event fires: the handler calls caches.keys() (sw.js:42-45)
Activate(g) ==
  /\ wstate[g] = "installed"
  /\ \A w \in Gens : wstate[w] # "activating"
  /\ LET old == {w \in Gens : wstate[w] = "activated"}
     IN /\ \/ old = {}
           \/ /\ \A w \in old : ~PendingEvents(w)
              /\ controller = 0 \/ skipWaitingFlag[g]
        /\ wstate' = [w \in Gens |->
             IF w = g THEN "activating"
             ELSE IF w \in old THEN "redundant" ELSE wstate[w]]
        /\ req' = IF old = {} THEN req ELSE StopWorker(req, CHOOSE w \in old : TRUE)
  /\ controller' = IF controller # 0 THEN g ELSE 0
  /\ apc' = [apc EXCEPT ![g] = "keys"]
  /\ UNCHANGED << installVars, apromise, cacheNames, todel, claimed, storeVars >>

\* sw.js:45-54: caches.keys() resolves; caches.delete is called for every
\* other name, all at once
ActivateKeys(g) ==
  /\ apc[g] = "keys"
  /\ cacheNames' = [cacheNames EXCEPT ![g] = Range(cacheOrder)]
  /\ todel' = [todel EXCEPT ![g] =
        {n \in Range(cacheOrder) : ShouldDelete(n, CACHE_NAME(g))}]
  /\ apc' = [apc EXCEPT ![g] = "delete"]
  /\ UNCHANGED << wstate, installVars, apromise, claimed, storeVars, controller, req >>

\* sw.js:51: one caches.delete settles.  A rejection rejects Promise.all,
\* and with it the promise given to waitUntil; the other deletions go on
ActivateDelete(g, n, ok) ==
  /\ n \in todel[g]
  /\ todel' = [todel EXCEPT ![g] = @ \ {n}]
  /\ IF ok
     THEN /\ cacheOrder' = DeleteOrder(cacheOrder, n)
          /\ stores' = DeleteStores(stores, n)
          /\ deletedBy' = [deletedBy EXCEPT ![n] = IF Present(cacheOrder, n) THEN g ELSE @]
          /\ UNCHANGED apromise
     ELSE /\ apromise' = [apromise EXCEPT ![g] = IF @ = "pending" THEN "rejected" ELSE @]
          /\ UNCHANGED storeVars
  /\ UNCHANGED << wstate, installVars, apc, cacheNames, claimed, controller, req >>

\* sw.js:55-59: every deletion succeeded: self.clients.claim()
ActivateClaim(g) ==
  /\ apc[g] = "delete"
  /\ todel[g] = {}
  /\ apromise[g] = "pending"
  /\ claimed' = [claimed EXCEPT ![g] = TRUE]
  /\ controller' = g
  /\ apromise' = [apromise EXCEPT ![g] = "fulfilled"]
  /\ apc' = [apc EXCEPT ![g] = "settled"]
  /\ UNCHANGED << wstate, installVars, cacheNames, todel, storeVars, req >>

\* The host ends the activation once the promise given to waitUntil
\* settled, fulfilled or rejected: the worker is activated
ActivateSettled(g) ==
  /\ wstate[g] = "activating"
  /\ apromise[g] # "pending"
  /\ wstate' = [wstate EXCEPT ![g] = "activated"]
  /\ apc' = [apc EXCEPT ![g] = "none"]
  /\ UNCHANGED << installVars, apromise, cacheNames, todel, claimed, storeVars,
                  controller, req >>

\* --------------------------------------------------------- the pages
\* The controlled page is closed
ClientClose ==
  /\ controller # 0
  /\ controller' = 0
  /\ UNCHANGED << wstate, installVars, activateVars, storeVars, req >>

\* A page is loaded: the active worker controls it
ClientLoad ==
  /\ controller = 0
  /\ ActiveGens # {}
  /\ controller' = CHOOSE a \in ActiveGens : TRUE
  /\ UNCHANGED << wstate, installVars, activateVars, storeVars, req >>

\* The host stops an idle worker: what it had started and not handed to an
\* event is never run
TerminateWorker(w) ==
  /\ ~PendingEvents(w)
  /\ \E r \in Reqs : req[r].worker = w /\ Unawaited(r)
  /\ req' = StopWorker(req, w)
  /\ UNCHANGED << wstate, installVars, activateVars, storeVars, controller >>

\* --------------------------------------------------- the fetch event
IsGet_Any(method) == TRUE

\* sw.js:66
IsGet(method) == method = "GET"

\* sw.js:71
IsHttp(url) == StartsWith(url, "http")

\* sw.js:66-73: the two early returns
Intercepts(method, url) == IsGet(method) /\ IsHttp(url)

CacheHit_Never(name) == FALSE

\* sw.js:80: if (cachedResponse)
CacheHit(name) == name # ""

Cacheable_AnyOk(nr) == nr # NoResponse /\ nr.status >= 200 /\ nr.status <= 299

\* sw.js:97: the responses that are cached
Cacheable(nr) ==
  ~ ( \/ nr = NoResponse
      \/ nr.status # 200
      \/ (nr.type # "basic" /\ nr.type # "cors") )

WriteTarget_Shared(w) == CACHE_NAME(1)

\* sw.js:105: the cache the fetch handler of worker w writes to
WriteTarget(w) == CACHE_NAME(w)

\* History: the requests whose handling has returned a cacheable network
\* response to its page
Delivered == {q \in Reqs : req[q].result = "network"}

\* The next fetch event not yet fired
NextReq(r) == req[r].pc = "idle" /\ \A q \in Reqs : q < r => req[q].pc # "idle"

\* sw.js:64-77: a controlled page issues a request and the host fires the
\* fetch event on the activated worker: the handler returns at once, or
\* calls respondWith and caches.match
FetchEvent(r, method, url) ==
  /\ NextReq(r)
  /\ controller # 0
  /\ wstate[controller] = "activated"
  /\ req' = [req EXCEPT ![r] =
       IF Intercepts(method, url)
       THEN [@ EXCEPT !.pc = "match", !.worker = controller, !.method = method,
                      !.url = url, !.prior = Delivered,
                      !.responded = TRUE, !.lookups = @ + 1]
       ELSE [@ EXCEPT !.pc = "passthrough", !.worker = controller,
                      !.method = method, !.url = url, !.prior = Delivered]]
  /\ UNCHANGED << wstate, installVars, activateVars, storeVars, controller >>

\* sw.js:77-91: caches.match resolves: the cached response is returned, or
\* fetch is called
MatchResolve(r) ==
  /\ req[r].pc = "match"
  /\ LET hit == CachesMatch(cacheOrder, stores, req[r].url)
     IN req' = [req EXCEPT ![r] =
          IF CacheHit(hit)
          THEN [@ EXCEPT !.pc = "done", !.result = "cache",
                         !.resp = ResponseOf(stores[hit].recs[req[r].url]),
                         !.servedFrom = hit,
                         !.hitWriter = stores[hit].recs[req[r].url].writer]
          ELSE [@ EXCEPT !.pc = "fetch", !.netCalls = @ + 1]]
  /\ UNCHANGED << wstate, installVars, activateVars, storeVars, controller >>

FetchCatch_Offline(error) == [status |-> 200, type |-> "basic", payload |-> 1]

\* sw.js:113-120: the catch handler logs the error and returns nothing: the
\* promise given to respondWith resolves with no response, and the page's
\* request fails with a network error
FetchCatch(error) == NoResponse

\* sw.js:91-120: fetch settles.  A rejection runs the catch handler, which
\* returns nothing; a response that is not cacheable is returned as it is;
\* a cacheable one is cloned, caches.open is called and the response is
\* returned without waiting for it
NetworkResolve(r, nr) ==
  /\ req[r].pc = "fetch"
  /\ req' = [req EXCEPT ![r] =
       IF nr = NetError
       THEN [@ EXCEPT !.pc = "done", !.result = "failed", !.netResp = nr,
                      !.resp = FetchCatch(nr)]
       ELSE IF ~Cacheable(nr)
       THEN [@ EXCEPT !.pc = "done", !.result = "network-uncached",
                      !.netResp = nr, !.resp = nr]
       ELSE [@ EXCEPT !.pc = "open", !.result = "network", !.netResp = nr,
                      !.toCache = Clone(nr), !.resp = nr]]
  /\ UNCHANGED << wstate, installVars, activateVars, storeVars, controller >>

\* sw.js:105-108: caches.open(CACHE_NAME) resolves; cache.put is called
OpenResolve(r) ==
  /\ req[r].pc = "open"
  /\ LET n == WriteTarget(req[r].worker)
     IN /\ cacheOrder' = OpenOrder(cacheOrder, n)
        /\ stores' = OpenStores(cacheOrder, stores, n)
        /\ req' = [req EXCEPT ![r] = [@ EXCEPT !.pc = "put",
                                               !.handle = stores'[n].epoch]]
  /\ UNCHANGED << wstate, installVars, activateVars, deletedBy, controller >>

\* sw.js:108: cache.put(event.request, responseToCache) completes
PutResolve(r) ==
  /\ req[r].pc = "put"
  /\ LET n == WriteTarget(req[r].worker)
     IN /\ stores' = PutRec(cacheOrder, stores, n, req[r].handle, req[r].url,
                            MkRec(req[r].toCache, r))
        /\ req' = [req EXCEPT ![r].pc =
             IF Attached(cacheOrder, stores, n, req[r].handle)
             THEN "written" ELSE "detached"]
  /\ UNCHANGED << wstate, installVars, activateVars, cacheOrder, deletedBy, controller >>

\* ------------------------------------------------------ specification
\* The steps of the host, of the install and activate handlers and of the pages
Lifecycle ==
  \/ \E g \in Gens : Register(g)
  \/ \E g \in Gens : InstallOpen(g)
  \/ \E g \in Gens, bad \in 0..Len(URLS_TO_CACHE), b \in BadAnswers,
        stored \in BOOLEAN : InstallAddAll(g, bad, b, stored)
  \/ \E g \in Gens : InstallSkipWaiting(g)
  \/ \E g \in Gens : InstallSettled(g)
  \/ \E g \in Gens : Activate(g)
  \/ \E g \in Gens : ActivateKeys(g)
  \/ \E g \in Gens, n \in CacheNames, ok \in BOOLEAN : ActivateDelete(g, n, ok)
  \/ \E g \in Gens : ActivateClaim(g)
  \/ \E g \in Gens : ActivateSettled(g)
  \/ ClientClose
  \/ ClientLoad
  \/ \E w \in Gens : TerminateWorker(w)

\* The steps of the fetch handler for the requests of R
Handling(R) ==
  \/ \E r \in R, pr \in PageRequests : FetchEvent(r, pr.method, pr.url)
  \/ \E r \in R : MatchResolve(r)
  \/ \E r \in R, nr \in NetResponses : NetworkResolve(r, nr)
  \/ \E r \in R : OpenResolve(r)
  \/ \E r \in R : PutResolve(r)

Next == Lifecycle \/ Handling(Reqs)

Spec == Init /\ [][Next]_vars

\* The same worker on an origin that holds an earlier deploy's cache, with
\* the pages issuing one request
NextSingle == Lifecycle \/ Handling({1})

SpecLegacy == InitLegacy /\ [][NextSingle]_vars

\* ------------------------------------------------------------ claims
Installed(g) == wstate[g] \in {"installed", "activating", "activated"}

\* The records request r's handling wrote
WrittenBy(r) ==
  {<<n, k>> \in CacheNames \X Keys :
     k \in DOMAIN stores[n].recs /\ stores[n].recs[k].writer = r}

\* C1 (as claimed): when cache.addAll of a generation failed, the promise the
\* install handler gave to waitUntil is not fulfilled and that generation's
\* worker is never installed, activating or activated.
C1_InstallAllOrNothing ==
  \A g \in Gens :
    populateFailed[g] => ipromise[g] # "fulfilled" /\ ~Installed(g)

\* C2 (as claimed): the cache of the generation that was active when a new
\* generation's cache.addAll failed is never deleted by the activate handler
\* of that failed generation.
C2_FailedPopulateKeepsPrevious ==
  \A g \in Gens :
    populateFailed[g] /\ activeAtFail[g] # 0
      => deletedBy[CACHE_NAME(activeAtFail[g])] # g

\* C3 (as claimed): once the activate handler's work has completed, the
\* cache enumeration holds no name other than CACHE_NAME.
C3_OnlyCurrentRemains ==
  \A g \in Gens :
    apc[g] = "settled" /\ apromise[g] = "fulfilled"
      => \A n \in Range(cacheOrder) : n = CACHE_NAME(g)

\* C3 (amended): once the activate handler's work has completed, every cache
\* that caches.keys() listed under another name than CACHE_NAME is deleted:
\* it is not in the enumeration and holds no record.
C3_ListedStaleDeleted ==
  \A g \in Gens :
    apc[g] = "settled" /\ apromise[g] = "fulfilled"
      => \A n \in cacheNames[g] \ {CACHE_NAME(g)} :
           ~Present(cacheOrder, n) /\ DOMAIN stores[n].recs = {}

C3_Witness ==
  \E g \in Gens, h \in Gens :
    /\ h < g
    /\ apc[g] = "settled" /\ apromise[g] = "fulfilled"
    /\ CACHE_NAME(h) \in cacheNames[g]
    /\ deletedBy[CACHE_NAME(h)] = g

\* C4: when caches.match resolves for a request whose URL has a record in
\* some cache, the handling ends with one of the stored responses for that
\* URL and no network call; a request served from the cache never made a
\* network call, and a network call is made only by a request whose lookup
\* has completed, at most once.
C4_CacheFirst ==
  /\ [](\A r \in Reqs :
          /\ req[r].result = "cache" => req[r].netCalls = 0
          /\ req[r].netCalls > 0 =>
               req[r].netCalls = 1 /\ req[r].lookups = 1
               /\ req[r].pc \notin {"idle", "passthrough", "match"})
  /\ [][\A r \in Reqs :
          req[r].pc = "match" /\ req'[r].pc # "match" =>
            LET holders == {n \in Range(cacheOrder) :
                              req[r].url \in DOMAIN stores[n].recs}
            IN IF holders # {}
               THEN /\ req'[r].pc = "done" /\ req'[r].result = "cache"
                    /\ req'[r].netCalls = 0
                    /\ \E n \in holders :
                         req'[r].resp = ResponseOf(stores[n].recs[req[r].url])
               ELSE req'[r].pc = "fetch" /\ req'[r].netCalls = 1]_vars

C4_Witness ==
  \E r \in Reqs :
    /\ req[r].method = "GET" /\ StartsWith(req[r].url, "https://")
    /\ req[r].result = "cache" /\ req[r].netCalls = 0
    /\ req[r].resp.status = 200

\* C5: a request whose network call was answered by a response with a
\* status other than 200, or a type other than basic and cors, has that same
\* response returned to its page, has nothing left to do, and wrote no
\* record in any cache.
C5_UncacheableNotStored ==
  \A r \in Reqs :
    LET nr == req[r].netResp
    IN nr \notin {NoResponse, NetError}
       /\ (nr.status # 200 \/ nr.type \notin {"basic", "cors"})
       => /\ req[r].pc = "done"
          /\ req[r].resp = nr
          /\ WrittenBy(r) = {}

C5_Witness ==
  \E r \in Reqs :
    /\ req[r].netResp.type = "opaque"
    /\ req[r].resp = req[r].netResp
    /\ req[r].pc = "done"

\* C6 (as claimed): a request for the URL of an earlier request, fired after
\* the earlier one returned its cacheable network response, makes no network
\* call and returns the same payload, the earlier one having made one call.
C6_SecondCallAfterDelivery ==
  \A r1 \in Reqs, r2 \in Reqs :
    /\ r1 \in req[r2].prior
    /\ req[r2].url = req[r1].url
    /\ req[r2].pc \notin {"idle", "passthrough", "match"}
    => /\ req[r1].netCalls = 1
       /\ req[r2].netCalls = 0
       /\ req[r2].resp.payload = req[r1].resp.payload

\* C6 (amended): a request whose lookup finds the record that an earlier
\* request's handling wrote makes no network call and returns the payload
\* the earlier request returned, the earlier one having made one call.
C6_SecondCallHitsFirstRecord ==
  \A r1 \in Reqs, r2 \in Reqs :
    req[r2].result = "cache" /\ req[r2].hitWriter = r1
    => /\ req[r1].url = req[r2].url
       /\ req[r1].netCalls = 1
       /\ req[r2].netCalls = 0
       /\ req[r2].resp.payload = req[r1].resp.payload
       /\ req[r2].resp = req[r1].resp

C6_Witness ==
  \E r1 \in Reqs, r2 \in Reqs :
    /\ r1 # r2
    /\ req[r2].result = "cache" /\ req[r2].hitWriter = r1
    /\ req[r1].result = "network"

\* C7: a request whose method is not GET is never looked up, never fetched
\* by the handler and never answered through respondWith; its handling
\* writes no record and the step that handles it leaves every cache as it is.
C7_NonGetPassesThrough ==
  /\ [](\A r \in Reqs :
          req[r].pc # "idle" /\ req[r].method # "GET" =>
            /\ req[r].pc = "passthrough"
            /\ req[r].lookups = 0 /\ req[r].netCalls = 0
            /\ ~req[r].responded
            /\ WrittenBy(r) = {})
  /\ [][\A r \in Reqs :
          req[r].pc = "idle" /\ req'[r].pc # "idle" /\ req'[r].method # "GET"
            => UNCHANGED << cacheOrder, stores >>]_vars

C7_Witness ==
  \E r \in Reqs :
    /\ req[r].method = "POST" /\ req[r].url = Origin \o "/api/submit"
    /\ req[r].pc = "passthrough"

\* C8 (as claimed): once a generation's install has succeeded, its cache
\* holds, for every manifest entry, a record with status 200.
C8_ManifestCachedAfterInstall ==
  \A g \in Gens :
    wstate[g] = "installed" =>
      /\ Present(cacheOrder, CACHE_NAME(g))
      /\ \A k \in ManifestKeys :
           /\ k \in DOMAIN stores[CACHE_NAME(g)].recs
           /\ stores[CACHE_NAME(g)].recs[k].status = 200

\* C9 (as claimed): a response served from a cache comes from the cache
\* named CACHE_NAME of the worker that handles the request.
C9_ServedFromOwnGeneration ==
  \A r \in Reqs :
    req[r].result = "cache" => req[r].servedFrom = CACHE_NAME(req[r].worker)

\* C10 (as claimed): the cache write started for a cacheable network
\* response is never dropped: the worker is not stopped while it is pending.
C10_WriteNeverDropped ==
  \A r \in Reqs :
    req[r].result = "network" => req[r].pc # "dropped"

\* C11 (as claimed): a worker is activated, and has claimed the clients, only
\* when none of the deletions its activate handler started is still pending,
\* and no request is handled by a worker that still has a deletion pending.
C11_ActiveOnlyAfterReclaim ==
  /\ \A g \in Gens :
       wstate[g] = "activated" \/ claimed[g] => todel[g] = {}
  /\ \A r \in Reqs :
       req[r].pc # "idle" => todel[req[r].worker] = {}

\* C12 (as claimed): the promise the activate handler gave to waitUntil is
\* never rejected, whatever caches.delete answers, and an activated worker
\* has claimed the clients.
C12_DeleteFailureNotFatal ==
  \A g \in Gens :
    /\ apromise[g] # "rejected"
    /\ wstate[g] = "activated" => claimed[g]

\* C13: a request whose network call failed has ended as failed: it made one
\* lookup and one network call, no response at all was delivered to its page,
\* and its handling wrote no record in any cache.
C13_NetworkFailureFails ==
  \A r \in Reqs :
    req[r].netResp = NetError
      => /\ req[r].pc = "done" /\ req[r].result = "failed"
         /\ req[r].lookups = 1 /\ req[r].netCalls = 1
         /\ req[r].resp = NoResponse
         /\ req[r].servedFrom = ""
         /\ WrittenBy(r) = {}

C13_Witness ==
  \E r \in Reqs :
    /\ req[r].method = "GET" /\ req[r].url = Origin \o "/api/rates"
    /\ req[r].netResp = NetError
    /\ req[r].result = "failed" /\ req[r].resp = NoResponse

\* The URL's scheme is http or https
HttpScheme(url) == StartsWith(url, "http://") \/ StartsWith(url, "https://")

\* C14 (as claimed): a GET request whose URL scheme is neither http nor https
\* passes through: it is never looked up, never fetched by the handler,
\* never answered through respondWith, and leaves no record.
C14_SchemeGate ==
  \A r \in Reqs :
    req[r].pc # "idle" /\ req[r].method = "GET" /\ ~HttpScheme(req[r].url)
      => /\ req[r].pc = "passthrough"
         /\ req[r].lookups = 0 /\ req[r].netCalls = 0
         /\ ~req[r].responded
         /\ WrittenBy(r) = {}

\* C15: self.skipWaiting() is called only by an install whose cache.addAll
\* fulfilled, after it: the step that ends cache.addAll with success leaves
\* every manifest entry in the generation's cache (the cache object it holds
\* being the one of that name), the skip-waiting flag is set only by the step
\* that follows it, and an install whose cache.addAll failed neither reaches
\* that step nor has the flag set.
C15_SkipWaitingAfterPopulate ==
  /\ [](\A g \in Gens :
          populateFailed[g] => ~skipWaitingFlag[g] /\ ipc[g] # "skipWaiting")
  /\ [][\A g \in Gens :
          /\ ipc[g] = "addAll" /\ ipc'[g] = "skipWaiting"
               => /\ ~populateFailed'[g]
                  /\ Attached(cacheOrder, stores, CACHE_NAME(g), ihandle[g])
                       => ManifestKeys \subseteq DOMAIN stores'[CACHE_NAME(g)].recs
          /\ ~skipWaitingFlag[g] /\ skipWaitingFlag'[g]
               => ipc[g] = "skipWaiting" /\ ~populateFailed[g]]_vars

C15_Witness ==
  \E g \in Gens, h \in Gens :
    /\ skipWaitingFlag[g] /\ ~populateFailed[g]
    /\ ManifestKeys \subseteq DOMAIN stores[CACHE_NAME(g)].recs
    /\ populateFailed[h] /\ ipc[h] = "none" /\ ~skipWaitingFlag[h]

\* C16: every record that a request's handling wrote is in the cache named
\* CACHE_NAME of the worker that handled the request, under the request's
\* URL, and holds the response that was returned to the page; and a step of
\* a request's handling leaves every cache of another name as it was, in the
\* enumeration and in its records.
C16_WritesOwnStoreOnly ==
  /\ [](\A r \in Reqs : \A w \in WrittenBy(r) :
          /\ w[1] = CACHE_NAME(req[r].worker)
          /\ w[2] = req[r].url
          /\ ResponseOf(stores[w[1]].recs[w[2]]) = req[r].resp)
  /\ [][\A r \in Reqs :
          req'[r].pc # req[r].pc /\ req'[r].pc # "dropped"
            => \A n \in CacheNames \ {CACHE_NAME(req'[r].worker)} :
                 /\ stores'[n] = stores[n]
                 /\ Present(cacheOrder', n) <=> Present(cacheOrder, n)]_vars

C16_Witness ==
  \E r \in Reqs :
    /\ req[r].worker = 2 /\ req[r].pc = "written"
    /\ Present(cacheOrder, CACHE_NAME(1))
    /\ <<CACHE_NAME(2), req[r].url>> \in WrittenBy(r)

\* The cache that the write of request r went to is still the one of its name
SameStore(r) ==
  Attached(cacheOrder, stores, CACHE_NAME(req[r].worker), req[r].handle)

\* C17: a cache.put that completes replaces the record of its URL by the
\* response it writes; when two requests of one worker for one URL have both
\* completed their write to one cache, that cache holds for the URL the
\* response written by one of the two; and each request whose network call
\* was answered returned that answer to its page.
C17_LastWriteWins ==
  /\ [](\A r1 \in Reqs, r2 \in Reqs :
          /\ r1 # r2
          /\ req[r1].pc = "written" /\ req[r2].pc = "written"
          /\ req[r1].url = req[r2].url /\ req[r1].worker = req[r2].worker
          /\ SameStore(r1) /\ SameStore(r2)
          => LET recs == stores[CACHE_NAME(req[r1].worker)].recs
             IN /\ req[r1].url \in DOMAIN recs
                /\ recs[req[r1].url] \in {MkRec(req[r1].toCache, r1),
                                          MkRec(req[r2].toCache, r2)})
  /\ [](\A r \in Reqs :
          req[r].result \in {"network", "network-uncached"}
            => req[r].resp = req[r].netResp)
  /\ [][\A r \in Reqs :
          req[r].pc = "put" /\ req'[r].pc = "written"
            => stores'[CACHE_NAME(req[r].worker)].recs[req[r].url]
                 = MkRec(req[r].toCache, r)]_vars

C17_Witness ==
  /\ req[1].pc = "written" /\ req[2].pc = "written"
  /\ req[1].url = req[2].url /\ req[1].worker = req[2].worker
  /\ req[1].netResp.payload # req[2].netResp.payload
  /\ SameStore(1) /\ SameStore(2)
  /\ stores[CACHE_NAME(req[1].worker)].recs[req[1].url].writer = 1

\* C18 (as claimed): from the time a generation's activate handler has
\* completed its work, and as long as that generation's worker is the active
\* one, the cache enumeration holds no name other than its CACHE_NAME.
C18_OnlyCurrentStays ==
  \A g \in Gens :
    wstate[g] = "activated" /\ apromise[g] = "fulfilled"
      => \A n \in Range(cacheOrder) : n = CACHE_NAME(g)

\* C18 (amended): from the time a generation's activate handler has
\* completed its work, no cache of an earlier generation is in the cache
\* enumeration, in any later state.
C18_StaleNeverReappears ==
  \A g \in Gens :
    apromise[g] = "fulfilled"
      => \A h \in 0..(g - 1) : ~Present(cacheOrder, CACHE_NAME(h))

C18_Witness ==
  \E g \in Gens, r \in Reqs :
    /\ apromise[g] = "fulfilled" /\ wstate[g] = "activated"
    /\ req[r].worker \in Gens /\ req[r].worker < g
    /\ req[r].pc = "dropped"
    /\ deletedBy[CACHE_NAME(req[r].worker)] = g

\* C19 (as claimed): while the worker of a generation whose install stored
\* every manifest entry is the active one, its cache is in the enumeration
\* and holds a record for every manifest entry.
C19_OwnGenerationKept ==
  \A g \in Gens :
    skipWaitingFlag[g] /\ wstate[g] \in {"activating", "activated"}
      => /\ Present(cacheOrder, CACHE_NAME(g))
         /\ ManifestKeys \subseteq DOMAIN stores[CACHE_NAME(g)].recs

====
